---- MODULE Spec2Model ----
(***************************************************************************)
(* Fixed-window rate limiting of nestjs-rate-limit: the guard              *)
(* (RateLimitGuard.canActivate, the Decision Stage), the interceptor       *)
(* (RateLimitInterceptor.intercept, the Settlement Stage) and the counter  *)
(* store they share (RateLimitStore: get / incr / expire / ttl).           *)
(*                                                                         *)
(* Every store call is one atomic step of the store; a request is a        *)
(* process that yields at each await, so the store calls of concurrent     *)
(* requests interleave freely.  Time is the Tick action, which ages the    *)
(* TTL of every key and removes the keys whose TTL has elapsed.            *)
(***************************************************************************)
EXTENDS Integers, Sequences, FiniteSets, TLC

\* ------------------------------------------------------------------ bounds

\* Number of requests of one behaviour.
NReq == 2

\* ------------------------------------------------ JavaScript value helpers

\* undefined / null: an optional value is <<>> (absent) or <<v>> (present).
None == << >>

Some(v) == << v >>

\* a ?? b
Nullish(a, b) == IF a # None THEN a ELSE b

\* a || b on optional numbers: undefined and 0 are falsy.
OrElseNum(a, b) == IF a = None \/ a = Some(0) THEN b ELSE a

\* a || b on optional booleans: undefined and false are falsy.
OrElseBool(a, b) == IF a = None \/ a = Some(FALSE) THEN b ELSE a

\* a || b on optional strings: undefined and "" are falsy.
OrElseStr(a, b) == IF a = None \/ a = Some("") THEN b ELSE a

\* customOptions?.field
Field(opts, f) == IF opts = None THEN None ELSE opts[1][f]

\* String(n)
String(n) == ToString(n)

\* ------------------------------------------------ routes, callers, policy

\* The controller classes and handlers of the application: className, handlerName.
RouteA == [className |-> "AppController", handlerName |-> "rate"]

RouteB == [className |-> "OtherController", handlerName |-> "ignored"]

Routes == {RouteA, RouteB}

\* The callers: what the framework resolved as request.ip, and the
\* x-forwarded-for header.
Callers ==
    { [ip |-> Some("10.0.0.1"), xff |-> None],
      [ip |-> None, xff |-> Some("10.0.0.2")] }

\* HttpStatus.TOO_MANY_REQUESTS
TOO_MANY_REQUESTS == 429

\* Outcomes of the protected operation: it returns a value with a status below
\* 400, it returns a value after setting an error status, or it throws.
Outcomes == {"ok", "errorStatus", "throw"}

\* @RateLimit(...) fragments put on the handler of RouteA: limit and duration
\* are 0 (falsy, so that the default applies) or 1, one of the two being 0.
DecoratorOptions ==
    { d \in [ limit : {Some(0), Some(1)},
              duration : {Some(0), Some(1)},
              countAllRequests : {None, Some(TRUE), Some(FALSE)},
              errorMessage : {None} ] :
        (d.limit = Some(0)) # (d.duration = Some(0)) }

\* Metadata of a route: SKIP_RATE_LIMIT and RATE_LIMIT_OPTIONS on the handler
\* and on its class.
NoMeta == [hSkip |-> None, cSkip |-> None, hOpts |-> None, cOpts |-> None]

\* RouteA: undecorated, decorated with each fragment, or decorated while its
\* class is marked @SkipRateLimit().
RouteAMetas ==
    { [NoMeta EXCEPT !.hOpts = o] : o \in {None} \cup {Some(d) : d \in DecoratorOptions} }
    \cup { [NoMeta EXCEPT !.cSkip = Some(TRUE),
                          !.hOpts = Some([limit |-> Some(1), duration |-> Some(1),
                                          countAllRequests |-> Some(TRUE),
                                          errorMessage |-> None])] }

\* RouteB: @SkipRateLimit() on the handler.
RouteBMetas == { [NoMeta EXCEPT !.hSkip = Some(TRUE)] }

\* The module options (RateLimitOptions) given to forRoot / forRootAsync.
ModuleOptions ==
    [ limit : {2},
      duration : {2},
      countAllRequests : {None, Some(TRUE), Some(FALSE)},
      errorMessage : {Some("Too Many Requests")} ]

\* The response object of the platform: express has setHeader, fastify header.
Platforms == {"express", "fastify"}

VARIABLES
    options,    \* this.options: the module's default policy
    meta,       \* reflector metadata of every route
    platform,   \* which response object the requests carry
    store,      \* the counter store: key -> [val, ttl]
    req,        \* the requests: position and locals of each
    expired,    \* keys whose counter has been removed by TTL expiry
    derived,    \* what the last direct call of a pure method returned
    cap         \* how many requests on one key the server lets run at once
                \* between their Decision read and their Settlement increment

vars == << options, meta, platform, store, req, expired, derived, cap >>

Req == 1..NReq

\* No pure method has been called directly.
NotDerived == [kind |-> "none"]

\* ------------------------------------------------------- the counter store

\* A key that does not exist: no value, and ttl answers -2.
Absent == [val |-> 0, ttl |-> -2]

\* ttl(key): remaining seconds, -1 when the key has no expiry, -2 when absent.
StoreTtl(s, k) == s[k].ttl

\* get(key): the value as a string, or null.
StoreGet(s, k) == IF s[k].val = 0 THEN None ELSE Some(String(s[k].val))

\* An incr that adds two.
StoreAddTwo(s, k) ==
    [s EXCEPT ![k] = IF @.val = 0 THEN [val |-> 2, ttl |-> -1]
                     ELSE [@ EXCEPT !.val = @ + 2]]

\* incr(key): atomically adds one (creating the key at 0 first, with no expiry).
StoreIncr(s, k) ==
    [s EXCEPT ![k] = IF @.val = 0 THEN [val |-> 1, ttl |-> -1]
                     ELSE [@ EXCEPT !.val = @ + 1]]

\* An expire that adds the seconds to the lifetime the key has left.
StoreExtend(s, k, seconds) ==
    IF s[k].val = 0 THEN s
    ELSE [s EXCEPT ![k].ttl = (IF @ < 0 THEN 0 ELSE @) + seconds]

\* expire(key, seconds): sets the remaining lifetime of an existing key.
StoreExpire(s, k, seconds) ==
    IF s[k].val = 0 THEN s ELSE [s EXCEPT ![k].ttl = seconds]

\* parseInt(value, 10) of a decimal string written by the store.
ParseInt(str) == CHOOSE n \in 0..(2 * (NReq + 1)) : String(n) = str

\* --------------------------------------------------- policy and key derivation

\* getAllAndOverride looking at the handler alone.
GetHandlerOnly(h, c) == h

\* Reflector.getAllAndOverride(key, [handler, class]): the first defined one.
GetAllAndOverride(h, c) == IF h # None THEN h ELSE c

Skip(route) == GetAllAndOverride(meta[route].hSkip, meta[route].cSkip) = Some(TRUE)

CustomOptions(route) == GetAllAndOverride(meta[route].hOpts, meta[route].cOpts)

EffectiveLimit(route) ==
    OrElseNum(Field(CustomOptions(route), "limit"), Some(options.limit))[1]

\* The duration with the per-route value ignored.
DefaultDuration(route) == options.duration

EffectiveDuration(route) ==
    OrElseNum(Field(CustomOptions(route), "duration"), Some(options.duration))[1]

\* Every route counted in the Decision Stage.
CountAllAlways(route) == TRUE

\* countAllRequests as the guard resolves it.
GuardCountAll(route) ==
    OrElseBool(OrElseBool(Field(CustomOptions(route), "countAllRequests"),
                          options.countAllRequests),
               Some(FALSE))[1]

\* countAllRequests as the interceptor resolves it.
InterceptorCountAll(route) ==
    Nullish(Nullish(Field(CustomOptions(route), "countAllRequests"),
                    options.countAllRequests),
            Some(FALSE))[1]

\* The digest of a string: a fixed-format string, one per input.
Sha256(value) == "sha256:" \o value

GetTracker(caller) == OrElseStr(Nullish(caller.ip, caller.xff), Some("unknown"))[1]

GenerateRateLimitKey(route, data) ==
    Sha256(route.className \o "-" \o route.handlerName \o "-" \o data)

GetErrorMessage(route) ==
    Nullish(Nullish(Field(meta[route].hOpts, "errorMessage"), options.errorMessage),
            Some("Too Many Requests"))

RateLimitException(message) ==
    [status |-> TOO_MANY_REQUESTS,
     message |-> Nullish(message, Some("Too Many Requests"))[1]]

AllKeys == { GenerateRateLimitKey(r, GetTracker(c)) : r \in Routes, c \in Callers }

\* ------------------------------------------------------ response attributes

NoHeaders == [limit |-> None, remaining |-> None, reset |-> None, retryAfter |-> None]

\* The value a header gets: setHeader keeps the number, header gets String(n).
HeaderValue(n) == IF platform = "express" THEN Some(n) ELSE Some(String(n))

SetHeadersAllow(h, remaining, effectiveLimit, ttl) ==
    [h EXCEPT !.limit = HeaderValue(effectiveLimit),
              !.remaining = HeaderValue(IF remaining < 0 THEN 0 ELSE remaining),
              !.reset = HeaderValue(ttl)]

\* setHeadersLimit writing the reset attribute instead of Retry-After.
SetHeadersLimitAsReset(h, ttl) == [h EXCEPT !.reset = HeaderValue(ttl)]

SetHeadersLimit(h, ttl) == [h EXCEPT !.retryAfter = HeaderValue(ttl)]

\* ------------------------------------------------------------- the requests

IdleReq ==
    [ pc |-> "idle",
      route |-> RouteA,
      key |-> None,         \* request.rateLimitTracker
      ttl |-> None,         \* canActivate's ttl, while it runs
      count |-> None,       \* canActivate's count, while it runs
      result |-> None,      \* what canActivate returned
      exception |-> None,   \* what canActivate threw
      headers |-> NoHeaders,
      outcome |-> "none",   \* how the protected operation ended
      ops |-> << >>,        \* the store calls issued for this request
      fault |-> None ]      \* where a store call of this request failed

Init ==
    /\ options \in ModuleOptions
    /\ \E a \in RouteAMetas, b \in RouteBMetas :
           meta = [r \in Routes |-> IF r = RouteA THEN a ELSE b]
    /\ platform \in Platforms
    /\ store = [k \in AllKeys |-> Absent]
    /\ req = [r \in Req |-> IdleReq]
    /\ expired = {}
    /\ derived = NotDerived
    /\ cap = NReq

\* Decide with the count-all threshold (>) applied in both modes.
DecideStrictly(rq, count) ==
    LET limit == EffectiveLimit(rq.route)
    IN  IF count > limit
        THEN [rq EXCEPT !.pc = "done",
                        !.ttl = None,
                        !.count = None,
                        !.headers = SetHeadersLimit(@, rq.ttl[1]),
                        !.exception = Some(RateLimitException(GetErrorMessage(rq.route)))]
        ELSE [rq EXCEPT !.pc = "handler",
                        !.ttl = None,
                        !.count = None,
                        !.headers = SetHeadersAllow(@, limit - count, limit, rq.ttl[1]),
                        !.result = Some(TRUE)]

\* Decide building the exception without throwing it: the request goes on.
DecideWithoutThrow(rq, count) ==
    LET limit == EffectiveLimit(rq.route)
        over == IF GuardCountAll(rq.route) THEN count > limit ELSE count >= limit
    IN  IF over
        THEN [rq EXCEPT !.pc = "handler",
                        !.ttl = None,
                        !.count = None,
                        !.headers = SetHeadersLimit(@, rq.ttl[1]),
                        !.exception = Some(RateLimitException(GetErrorMessage(rq.route)))]
        ELSE [rq EXCEPT !.pc = "handler",
                        !.ttl = None,
                        !.count = None,
                        !.headers = SetHeadersAllow(@, limit - count, limit, rq.ttl[1]),
                        !.result = Some(TRUE)]

\* Decide with the request itself subtracted from the remaining count.
DecideCountingSelf(rq, count) ==
    LET limit == EffectiveLimit(rq.route)
        over == IF GuardCountAll(rq.route) THEN count > limit ELSE count >= limit
    IN  IF over
        THEN [rq EXCEPT !.pc = "done",
                        !.ttl = None,
                        !.count = None,
                        !.headers = SetHeadersLimit(@, rq.ttl[1]),
                        !.exception = Some(RateLimitException(GetErrorMessage(rq.route)))]
        ELSE [rq EXCEPT !.pc = "handler",
                        !.ttl = None,
                        !.count = None,
                        !.headers = SetHeadersAllow(@, limit - count - 1, limit, rq.ttl[1]),
                        !.result = Some(TRUE)]

\* Steps 6 and 7 of canActivate, once count is known: reject or allow.
Decide(rq, count) ==
    LET limit == EffectiveLimit(rq.route)
        over == IF GuardCountAll(rq.route) THEN count > limit ELSE count >= limit
    IN  IF over
        THEN [rq EXCEPT !.pc = "done",
                        !.ttl = None,
                        !.count = None,
                        !.headers = SetHeadersLimit(@, rq.ttl[1]),
                        !.exception = Some(RateLimitException(GetErrorMessage(rq.route)))]
        ELSE [rq EXCEPT !.pc = "handler",
                        !.ttl = None,
                        !.count = None,
                        !.headers = SetHeadersAllow(@, limit - count, limit, rq.ttl[1]),
                        !.result = Some(TRUE)]

\* canActivate up to its first store call: the bypass check, the policy, the
\* tracker and the key, bound to the request.  Requests arrive in order of id.
CanActivate(r) ==
    /\ req[r].pc = "idle"
    /\ IF r = 1 THEN TRUE ELSE req[r - 1].pc # "idle"
    /\ \E route \in Routes, caller \in Callers :
          req' = [req EXCEPT ![r] =
                    IF Skip(route)
                    THEN [@ EXCEPT !.pc = "handler", !.route = route, !.result = Some(TRUE)]
                    ELSE [@ EXCEPT !.pc = "ttl", !.route = route,
                                   !.key = Some(GenerateRateLimitKey(route, GetTracker(caller)))]]
    /\ UNCHANGED << options, meta, platform, store, expired, derived, cap >>

\* The store's answer passed on as it is.
TtlAsAnswered(ttl, effectiveDuration) == ttl

\* if (ttl < 0) { ttl = effectiveDuration }
RemainingTime(ttl, effectiveDuration) == IF ttl < 0 THEN effectiveDuration ELSE ttl

\* let ttl = await storeClient.ttl(key); if (ttl < 0) ttl = effectiveDuration
GuardTtl(r) ==
    /\ req[r].pc = "ttl"
    /\ LET t == StoreTtl(store, req[r].key[1])
       IN  req' = [req EXCEPT ![r] =
                    [@ EXCEPT !.pc = IF GuardCountAll(req[r].route) THEN "incr" ELSE "get",
                              !.ttl = Some(RemainingTime(t, EffectiveDuration(req[r].route))),
                              !.ops = Append(@, "ttl")]]
    /\ UNCHANGED << options, meta, platform, store, expired, derived, cap >>

\* A window opened after every increment.
AfterEveryIncrement(count) == count >= 1

\* if (newCount === 1), if (count === 1): the increment created the counter,
\* so the caller gives it its lifetime.
OpensWindow(count) == count = 1

\* count-all mode: const newCount = await storeClient.incr(key)
GuardIncr(r) ==
    /\ req[r].pc = "incr"
    /\ LET k == req[r].key[1]
           s == StoreIncr(store, k)
           newCount == s[k].val
           rq == [req[r] EXCEPT !.ops = Append(@, "incr")]
       IN  /\ store' = s
           /\ req' = [req EXCEPT ![r] =
                        IF OpensWindow(newCount)
                        THEN [rq EXCEPT !.pc = "expire", !.count = Some(newCount)]
                        ELSE Decide(rq, newCount)]
    /\ UNCHANGED << options, meta, platform, expired, derived, cap >>

\* count-all mode: await storeClient.expire(key, effectiveDuration)
GuardExpire(r) ==
    /\ req[r].pc = "expire"
    /\ store' = StoreExpire(store, req[r].key[1], EffectiveDuration(req[r].route))
    /\ req' = [req EXCEPT ![r] = Decide([@ EXCEPT !.ops = Append(@, "expire")], req[r].count[1])]
    /\ UNCHANGED << options, meta, platform, expired, derived, cap >>

\* success-only mode: const currentVal = await storeClient.get(key)
GuardGet(r) ==
    /\ req[r].pc = "get"
    /\ LET currentVal == StoreGet(store, req[r].key[1])
           count == IF currentVal # None /\ currentVal # Some("")
                    THEN ParseInt(currentVal[1]) ELSE 0
       IN  req' = [req EXCEPT ![r] = Decide([@ EXCEPT !.ops = Append(@, "get")], count)]
    /\ UNCHANGED << options, meta, platform, store, expired, derived, cap >>

\* response.statusCode once the protected operation has ended.
StatusCode(outcome) == IF outcome = "ok" THEN 200 ELSE IF outcome = "errorStatus" THEN 400 ELSE 500

\* ShouldSettle without the check of the response status.
ShouldSettleAnyStatus(countAllRequests, key, statusCode) ==
    /\ ~countAllRequests
    /\ ~(key = None \/ key = Some(""))

\* ShouldSettle with the status threshold off by one.
ShouldSettleUpTo400(countAllRequests, key, statusCode) ==
    /\ ~countAllRequests
    /\ ~(key = None \/ key = Some(""))
    /\ statusCode <= 400

\* The conditions under which tap's callback goes on to call incr.
ShouldSettle(countAllRequests, key, statusCode) ==
    /\ ~countAllRequests
    /\ ~(key = None \/ key = Some(""))
    /\ statusCode < 400

\* intercept: the protected operation runs; when it emits a value, tap's
\* callback starts the detached settlement, which goes on to call incr only
\* if the interceptor resolved success-only mode, the key is bound and the
\* response status is below 400.
Intercept(r) ==
    /\ req[r].pc = "handler"
    /\ \E outcome \in Outcomes :
          LET settle == /\ outcome # "throw"
                        /\ ShouldSettle(InterceptorCountAll(req[r].route), req[r].key,
                                        StatusCode(outcome))
          IN  req' = [req EXCEPT ![r] =
                        [@ EXCEPT !.pc = IF settle THEN "settleIncr" ELSE "done",
                                  !.outcome = outcome]]
    /\ UNCHANGED << options, meta, platform, store, expired, derived, cap >>

\* The settlement writing to the key of the route's first caller.
SettlementKeyOfRoute(rq) ==
    GenerateRateLimitKey(rq.route, GetTracker(CHOOSE c \in Callers : c.ip # None))

\* const key = request?.rateLimitTracker: the key the guard bound to the
\* request.
SettlementKey(rq) == rq.key[1]

\* settlement: const count = await storeClient.incr(key)
SettleIncr(r) ==
    /\ req[r].pc = "settleIncr"
    /\ LET k == SettlementKey(req[r])
           s == StoreIncr(store, k)
       IN  /\ store' = s
           /\ req' = [req EXCEPT ![r] =
                        [@ EXCEPT !.pc = IF OpensWindow(s[k].val)
                                         THEN "settleExpire" ELSE "done",
                                  !.ops = Append(@, "incr")]]
    /\ UNCHANGED << options, meta, platform, expired, derived, cap >>

\* settlement: await storeClient.expire(key, customOptions?.duration || options.duration)
SettleExpire(r) ==
    /\ req[r].pc = "settleExpire"
    /\ store' = StoreExpire(store, SettlementKey(req[r]), EffectiveDuration(req[r].route))
    /\ req' = [req EXCEPT ![r] = [@ EXCEPT !.pc = "done", !.ops = Append(@, "expire")]]
    /\ UNCHANGED << options, meta, platform, expired, derived, cap >>

\* One second passes: every TTL goes down by one, and a key whose TTL has
\* elapsed disappears.
Tick ==
    /\ \E k \in AllKeys : store[k].ttl >= 1
    /\ store' = [k \in AllKeys |->
                   IF store[k].ttl > 1 THEN [store[k] EXCEPT !.ttl = @ - 1]
                   ELSE IF store[k].ttl = 1 THEN Absent
                   ELSE store[k]]
    /\ expired' = expired \cup {k \in AllKeys : store[k].ttl = 1}
    /\ UNCHANGED << options, meta, platform, req, derived, cap >>

Next ==
    \/ \E r \in Req : CanActivate(r)
    \/ \E r \in Req : GuardTtl(r)
    \/ \E r \in Req : GuardIncr(r)
    \/ \E r \in Req : GuardExpire(r)
    \/ \E r \in Req : GuardGet(r)
    \/ \E r \in Req : Intercept(r)
    \/ \E r \in Req : SettleIncr(r)
    \/ \E r \in Req : SettleExpire(r)
    \/ Tick

Spec == Init /\ [][Next]_vars

\* Sequential requests: a request arrives only when every other request has
\* ended, its Settlement included.
Quiet(r) == \A q \in Req \ {r} : req[q].pc \in {"idle", "done"}

NextSeq ==
    \/ \E r \in Req : Quiet(r) /\ CanActivate(r)
    \/ \E r \in Req : GuardTtl(r)
    \/ \E r \in Req : GuardIncr(r)
    \/ \E r \in Req : GuardExpire(r)
    \/ \E r \in Req : GuardGet(r)
    \/ \E r \in Req : Intercept(r)
    \/ \E r \in Req : SettleIncr(r)
    \/ \E r \in Req : SettleExpire(r)
    \/ Tick

SpecSeq == Init /\ [][NextSeq]_vars

\* --------------------------------------------- the policy resolution alone

\* What @RateLimit may attach at one level: nothing, or a fragment in which
\* every field may be missing, zero or set.
FragmentsWith(message) ==
    {None} \cup
    { Some(o) : o \in [ limit : {None, Some(0), Some(1)},
                        duration : {None, Some(0), Some(1)},
                        countAllRequests : {None, Some(TRUE), Some(FALSE)},
                        errorMessage : {None, Some(message)} ] }

\* Every decoration of RouteA by @RateLimit, on the handler, on the class or
\* on both.
DecoratedMetas ==
    { [NoMeta EXCEPT !.hOpts = h, !.cOpts = c] :
        h \in FragmentsWith("handler message"),
        c \in FragmentsWith("class message") }

\* Module options with and without a default message.
ModuleOptionsAnyMessage ==
    [ limit : {2},
      duration : {2},
      countAllRequests : {None, Some(TRUE), Some(FALSE)},
      errorMessage : {None, Some("default message")} ]

InitPolicy ==
    /\ options \in ModuleOptionsAnyMessage
    /\ \E a \in DecoratedMetas, b \in RouteBMetas :
           meta = [r \in Routes |-> IF r = RouteA THEN a ELSE b]
    /\ platform = "express"
    /\ store = [k \in AllKeys |-> Absent]
    /\ req = [r \in Req |-> IdleReq]
    /\ expired = {}
    /\ derived = NotDerived
    /\ cap = NReq

\* The policy the two stages resolve for a route: canActivate's limit,
\* duration and countAllRequests, intercept's countAllRequests and duration,
\* and the message of the exception a rejection would throw.
ResolvePolicy(route) ==
    /\ derived = NotDerived
    /\ derived' = [ kind |-> "policy",
                    route |-> route,
                    limit |-> EffectiveLimit(route),
                    duration |-> EffectiveDuration(route),
                    guardCountAll |-> GuardCountAll(route),
                    interceptorCountAll |-> InterceptorCountAll(route),
                    message |-> RateLimitException(GetErrorMessage(route)).message ]
    /\ UNCHANGED << options, meta, platform, store, req, expired, cap >>

NextPolicy == \E route \in Routes : ResolvePolicy(route)

SpecPolicy == InitPolicy /\ [][NextPolicy]_vars

\* ------------------------------------------------ a window already running

\* The requests arrive at a store in which earlier traffic of one caller on
\* RouteA may have left a counter: a window is running with some of its
\* lifetime left.
InitWindow ==
    /\ options \in ModuleOptions
    /\ \E a \in RouteAMetas, b \in RouteBMetas :
           meta = [r \in Routes |-> IF r = RouteA THEN a ELSE b]
    /\ platform = "express"
    /\ \E c \in Callers :
         \E v \in 1..options.limit, t \in 1..EffectiveDuration(RouteA) :
           store = [k \in AllKeys |->
                      IF k = GenerateRateLimitKey(RouteA, GetTracker(c))
                      THEN [val |-> v, ttl |-> t] ELSE Absent]
    /\ req = [r \in Req |-> IdleReq]
    /\ expired = {}
    /\ derived = NotDerived
    /\ cap = NReq

SpecWindow == InitWindow /\ [][NextSeq]_vars

\* ------------------------------------------- tracker and key derivation alone

\* Route identities as getClass().name and getHandler().name give them; a
\* method declared with a string-literal name may contain '-'.
KeyRoutes ==
    [ className : {"AppController", "OtherController"},
      handlerName : {"rate", "rate-all", "customKey"} ]

\* Tracker strings; an IP address never contains '-', a forwarded-for or an
\* authorization header may.
KeyTrackers == {"10.0.0.1", "all-10.0.0.1", "unknown", "token-a"}

\* Requests as getTracker reads them: ip and the x-forwarded-for header may
\* each be missing, empty or set.
TrackerRequests ==
    [ ip : {None, Some(""), Some("10.0.0.1")},
      xff : {None, Some(""), Some("10.0.0.2")} ]

\* Requests as CustomRateLimitGuard reads them: two client addresses, and an
\* authorization header that is missing, empty or one of two tokens.
AuthRequests ==
    [ ip : {Some("10.0.0.1"), Some("10.0.0.2")},
      xff : {None},
      authorization : {None, Some(""), Some("token-a"), Some("token-b")} ]

\* CustomRateLimitGuard.getTracker with the header tested for presence only.
CustomGetTrackerIfPresent(request) ==
    IF request.authorization # None
    THEN request.authorization[1]
    ELSE GetTracker(request)

\* CustomRateLimitGuard.getTracker: the authorization header if it is truthy,
\* else super.getTracker(request).
CustomGetTracker(request) ==
    IF request.authorization # None /\ request.authorization # Some("")
    THEN request.authorization[1]
    ELSE GetTracker(request)

InitKeys ==
    /\ options = [limit |-> 2, duration |-> 2, countAllRequests |-> Some(TRUE),
                  errorMessage |-> Some("Too Many Requests")]
    /\ \E b \in RouteBMetas :
           meta = [r \in Routes |-> IF r = RouteA THEN NoMeta ELSE b]
    /\ platform = "express"
    /\ store = [k \in AllKeys |-> Absent]
    /\ req = [r \in Req |-> IdleReq]
    /\ expired = {}
    /\ derived = NotDerived
    /\ cap = NReq

\* generateRateLimitKey called for two requests.
DeriveKeys ==
    /\ derived = NotDerived
    /\ \E ra \in KeyRoutes, rb \in KeyRoutes, ta \in KeyTrackers, tb \in KeyTrackers :
          derived' = [ kind |-> "keys",
                       a |-> [route |-> ra, tracker |-> ta],
                       b |-> [route |-> rb, tracker |-> tb],
                       keyA |-> GenerateRateLimitKey(ra, ta),
                       keyB |-> GenerateRateLimitKey(rb, tb) ]
    /\ UNCHANGED << options, meta, platform, store, req, expired, cap >>

\* RateLimitGuard.getTracker called for a request.
DeriveTracker ==
    /\ derived = NotDerived
    /\ \E request \in TrackerRequests :
          derived' = [ kind |-> "tracker",
                       request |-> request,
                       tracker |-> GetTracker(request) ]
    /\ UNCHANGED << options, meta, platform, store, req, expired, cap >>

\* canActivate's tracker and key, lines 86-88, for two requests to one route
\* under CustomRateLimitGuard.
DeriveCustom ==
    /\ derived = NotDerived
    /\ \E route \in KeyRoutes, ra \in AuthRequests, rb \in AuthRequests :
          derived' = [ kind |-> "custom",
                       a |-> ra,
                       b |-> rb,
                       trackerA |-> CustomGetTracker(ra),
                       trackerB |-> CustomGetTracker(rb),
                       superA |-> GetTracker(ra),
                       superB |-> GetTracker(rb),
                       keyA |-> GenerateRateLimitKey(route, CustomGetTracker(ra)),
                       keyB |-> GenerateRateLimitKey(route, CustomGetTracker(rb)) ]
    /\ UNCHANGED << options, meta, platform, store, req, expired, cap >>

\* expire(key, seconds) called once, and called twice in a row, on a key that
\* holds a counter with or without a TTL.
ExpireTwice ==
    /\ derived = NotDerived
    /\ \E k \in AllKeys, v \in 1..NReq, t \in {-1} \cup (1..options.duration),
          seconds \in 1..options.duration :
          LET s == [store EXCEPT ![k] = [val |-> v, ttl |-> t]]
          IN  derived' = [ kind |-> "expire",
                           key |-> k,
                           seconds |-> seconds,
                           before |-> s[k],
                           once |-> StoreExpire(s, k, seconds),
                           twice |-> StoreExpire(StoreExpire(s, k, seconds), k, seconds) ]
    /\ UNCHANGED << options, meta, platform, store, req, expired, cap >>

NextKeys ==
    \/ DeriveKeys
    \/ DeriveTracker
    \/ DeriveCustom
    \/ ExpireTwice

SpecKeys == InitKeys /\ [][NextKeys]_vars

\* ------------------------------------------------------ a store that may fail

\* The store method called at a position of a request.
OpAt(pc) ==
    IF pc = "settleIncr" THEN "incr"
    ELSE IF pc = "settleExpire" THEN "expire"
    ELSE pc

\* What a failed call may have done to the store: the failure can come
\* before the store applied the call or after.
StoreAfterFailure(s, op, k, seconds) ==
    {s} \cup (IF op = "incr" THEN {StoreIncr(s, k)}
              ELSE IF op = "expire" THEN {StoreExpire(s, k, seconds)}
              ELSE {})

\* A rejected store promise handled by letting the request through.
FailOpen(rq, pc) ==
    [rq EXCEPT !.pc = "handler",
               !.ttl = None,
               !.count = None,
               !.result = Some(TRUE),
               !.fault = Some(pc),
               !.ops = Append(@, OpAt(pc))]

\* canActivate awaits every store call without a try / catch: the rejection
\* becomes canActivate's own, and nothing after the call runs.
OnStoreError(rq, pc) ==
    [rq EXCEPT !.pc = "done",
               !.ttl = None,
               !.count = None,
               !.fault = Some(pc),
               !.ops = Append(@, OpAt(pc))]

\* A rejected settlement call turned into a failed response.
SettleErrorIntoResponse(rq, pc) ==
    [rq EXCEPT !.pc = "done",
               !.outcome = "throw",
               !.fault = Some(pc),
               !.ops = Append(@, OpAt(pc))]

\* The settlement runs in a detached async function whose promise is
\* discarded (void): its rejection reaches nobody.
OnSettleError(rq, pc) ==
    [rq EXCEPT !.pc = "done",
               !.fault = Some(pc),
               !.ops = Append(@, OpAt(pc))]

\* A store call of the Decision Stage fails.
GuardStoreFails(r) ==
    /\ req[r].pc \in {"ttl", "incr", "expire", "get"}
    /\ store' \in StoreAfterFailure(store, req[r].pc, req[r].key[1],
                                    EffectiveDuration(req[r].route))
    /\ req' = [req EXCEPT ![r] = OnStoreError(@, req[r].pc)]
    /\ UNCHANGED << options, meta, platform, expired, derived, cap >>

\* A store call of the Settlement Stage fails.
SettleStoreFails(r) ==
    /\ req[r].pc \in {"settleIncr", "settleExpire"}
    /\ store' \in StoreAfterFailure(store, OpAt(req[r].pc), req[r].key[1],
                                    EffectiveDuration(req[r].route))
    /\ req' = [req EXCEPT ![r] = OnSettleError(@, req[r].pc)]
    /\ UNCHANGED << options, meta, platform, expired, derived, cap >>

NextFault ==
    \/ \E r \in Req : Quiet(r) /\ CanActivate(r)
    \/ \E r \in Req : GuardTtl(r)
    \/ \E r \in Req : GuardIncr(r)
    \/ \E r \in Req : GuardExpire(r)
    \/ \E r \in Req : GuardGet(r)
    \/ \E r \in Req : Intercept(r)
    \/ \E r \in Req : SettleIncr(r)
    \/ \E r \in Req : SettleExpire(r)
    \/ \E r \in Req : GuardStoreFails(r)
    \/ \E r \in Req : SettleStoreFails(r)
    \/ Tick

SpecFault == Init /\ [][NextFault]_vars

\* ------------------------------------------------- a bounded number in flight

\* The requests on a key that passed their Decision read and have not yet
\* made (or given up) their Settlement increment.
InFlight(k) ==
    {q \in Req : req[q].key = Some(k) /\ req[q].pc \in {"handler", "settleIncr"}}

\* The server runs at most cap requests on one key at once.
InitBurst ==
    /\ options \in ModuleOptions
    /\ \E a \in RouteAMetas, b \in RouteBMetas :
           meta = [r \in Routes |-> IF r = RouteA THEN a ELSE b]
    /\ platform = "express"
    /\ store = [k \in AllKeys |-> Absent]
    /\ req = [r \in Req |-> IdleReq]
    /\ expired = {}
    /\ derived = NotDerived
    /\ cap \in 1..NReq

\* The Decision read of a request the server has room for.
GuardGetAdmitted(r) ==
    /\ req[r].pc = "get"
    /\ Cardinality(InFlight(req[r].key[1])) < cap
    /\ GuardGet(r)

NextBurst ==
    \/ \E r \in Req : CanActivate(r)
    \/ \E r \in Req : GuardTtl(r)
    \/ \E r \in Req : GuardIncr(r)
    \/ \E r \in Req : GuardExpire(r)
    \/ \E r \in Req : GuardGetAdmitted(r)
    \/ \E r \in Req : Intercept(r)
    \/ \E r \in Req : SettleIncr(r)
    \/ \E r \in Req : SettleExpire(r)
    \/ Tick

SpecBurst == InitBurst /\ [][NextBurst]_vars

\* ------------------------------------------- the vocabulary of the properties

\* The per-route Policy fragment that applies to a route.
Fragment(route) ==
    IF meta[route].hOpts # None THEN meta[route].hOpts ELSE meta[route].cOpts

\* The effective Policy: the per-route value if present and truthy, else the
\* default value, else (countAllRequests) false.
EffLimit(route) ==
    LET f == Fragment(route)
    IN  IF f # None /\ f[1].limit # None /\ f[1].limit # Some(0)
        THEN f[1].limit[1] ELSE options.limit

EffWindow(route) ==
    LET f == Fragment(route)
    IN  IF f # None /\ f[1].duration # None /\ f[1].duration # Some(0)
        THEN f[1].duration[1] ELSE options.duration

CountAllMode(route) ==
    LET f == Fragment(route)
    IN  IF f # None /\ f[1].countAllRequests = Some(TRUE)
        THEN TRUE ELSE options.countAllRequests = Some(TRUE)

SuccessOnlyMode(route) == ~CountAllMode(route)

\* The route is marked to bypass limiting, on the handler or on its class.
Bypass(route) == meta[route].hSkip = Some(TRUE) \/ meta[route].cSkip = Some(TRUE)

Started(r) == req[r].pc # "idle"

\* The Decision Stage bound a Limiting Key to the request.
Limited(r) == req[r].key # None

Allowed(r) == req[r].result = Some(TRUE)

Rejected(r) == req[r].exception # None

Decided(r) == Allowed(r) \/ Rejected(r)

\* The requests made on a key so far.
OnKey(k) == {r \in Req : req[r].key = Some(k)}

\* The position of a request among the requests on its key, in order of arrival.
Rank(r) == Cardinality({q \in 1..r : req[q].key = req[r].key})

\* How many of the store calls issued for a request are `op`.
Calls(r, op) == Cardinality({i \in 1..Len(req[r].ops) : req[r].ops[i] = op})

Min(a, b) == IF a <= b THEN a ELSE b

\* A response attribute holds the number n (as the platform writes it).
AttrIs(h, n) == h = (IF platform = "express" THEN Some(n) ELSE Some(String(n)))

\* --------------------------------------------------------------- properties

\* C1: in count-all mode, N sequential requests on one Limiting Key within one
\* window: requests 1..L are allowed and requests L+1..N are rejected.
C1_CountAllSequential ==
    \A r \in Req :
        ( /\ Limited(r)
          /\ Decided(r)
          /\ CountAllMode(req[r].route)
          /\ req[r].key[1] \notin expired )
        => (Allowed(r) <=> Rank(r) <= EffLimit(req[r].route))

\* C2: in count-all mode, under every interleaving of the store calls of N
\* concurrent requests on one Limiting Key within one window, exactly
\* min(N, L) requests are allowed.
C2_CountAllConcurrent ==
    \A k \in AllKeys :
        ( /\ OnKey(k) # {}
          /\ k \notin expired
          /\ \A r \in OnKey(k) : Decided(r) /\ CountAllMode(req[r].route) )
        => Cardinality({r \in OnKey(k) : Allowed(r)})
             = Min(Cardinality(OnKey(k)), EffLimit(req[CHOOSE r \in OnKey(k) : TRUE].route))

\* C3: in success-only mode, a request whose protected operation fails (it
\* throws, or its response status is >= 400) never increments the counter: no
\* incr and no expire is issued for it, so it leaves the counter and its TTL
\* as they were.
C3_FailureNeverCounts ==
    \A r \in Req :
        (SuccessOnlyMode(req[r].route) /\ req[r].outcome \in {"errorStatus", "throw"})
        => /\ req[r].pc = "done"
           /\ Calls(r, "incr") = 0
           /\ Calls(r, "expire") = 0

\* Two failed requests on one key in success-only mode, one that threw and one
\* that answered an error status, and the key still has no counter.
C3_Witness ==
    \E r, q \in Req :
        /\ Limited(r) /\ req[q].key = req[r].key
        /\ SuccessOnlyMode(req[r].route)
        /\ req[r].outcome = "throw" /\ req[q].outcome = "errorStatus"
        /\ store[req[r].key[1]] = Absent

\* C4: in success-only mode, within one window and once every pending
\* Settlement has completed, the counter of a key equals the number of allowed
\* requests on that key whose protected operation succeeded.
C4_CounterIsSuccesses ==
    \A k \in AllKeys :
        ( /\ OnKey(k) # {}
          /\ k \notin expired
          /\ \A r \in OnKey(k) : /\ SuccessOnlyMode(req[r].route)
                                 /\ req[r].pc \notin {"settleIncr", "settleExpire"} )
        => store[k].val = Cardinality({r \in OnKey(k) : Allowed(r) /\ req[r].outcome = "ok"})

\* Two attempts on one key, one of which failed: the counter is 1.
C4_Witness ==
    \E k \in AllKeys :
        /\ k \notin expired
        /\ Cardinality(OnKey(k)) = 2
        /\ \A r \in OnKey(k) : SuccessOnlyMode(req[r].route) /\ req[r].pc = "done"
        /\ \E r \in OnKey(k) : req[r].outcome = "errorStatus"
        /\ store[k].val = 1

\* C5, the decision step: success-only mode rejects exactly when the counter
\* read (missing as 0) is >= L, count-all mode exactly when the post-increment
\* value is > L.
C5_DecisionStep ==
    \A r \in Req :
        /\ (req[r].pc = "get" /\ req'[r].pc # "get")
           => /\ SuccessOnlyMode(req[r].route)
              /\ Rejected(r)' <=> store[req[r].key[1]].val >= EffLimit(req[r].route)
              /\ Allowed(r)' <=> ~Rejected(r)'
        /\ (req[r].pc = "incr" /\ req'[r].pc # "incr")
           => /\ CountAllMode(req[r].route)
              /\ Rejected(r)' <=> store'[req[r].key[1]].val > EffLimit(req[r].route)
              /\ Allowed(r)' <=> (~Rejected(r)' /\ req'[r].pc # "expire")
        /\ (req[r].pc = "expire" /\ req'[r].pc # "expire")
           => /\ CountAllMode(req[r].route)
              /\ Rejected(r)' <=> 1 > EffLimit(req[r].route)
              /\ Allowed(r)' <=> ~Rejected(r)'

\* C5, the consequence: when every Settlement has finished before the Decision
\* of a request (the requests are sequential), success-only mode allows it iff
\* fewer than L successful requests have been settled in the window.
C5_SequentialStep ==
    \A r \in Req :
        ( /\ req[r].pc = "get" /\ req'[r].pc # "get"
          /\ Quiet(r)
          /\ req[r].key[1] \notin expired )
        => (Allowed(r)' <=>
              Cardinality({q \in Req \ {r} : req[q].key = req[r].key /\ req[q].outcome = "ok"})
                < EffLimit(req[r].route))

C6_SettlementNoOpInCountAll ==
    \A r \in Req :
        CountAllMode(req[r].route)
        => /\ req[r].pc \notin {"settleIncr", "settleExpire"}
           /\ Calls(r, "incr") <= 1

\* C7: for a route marked to bypass limiting, neither stage issues any store
\* call, whatever the Policy, and the request is allowed.
C7_BypassNoStoreAccess ==
    \A r \in Req :
        (Started(r) /\ Bypass(req[r].route))
        => /\ req[r].ops = << >>
           /\ req[r].pc \in {"handler", "done"}
           /\ Allowed(r) /\ ~Rejected(r)
           /\ req[r].headers = NoHeaders

\* Two finished requests on bypass routes, one marked on the handler and one on
\* the class of a route that carries a per-route Policy.
C7_Witness ==
    \E r, q \in Req :
        /\ req[r].pc = "done" /\ req[q].pc = "done"
        /\ req[r].outcome = "ok" /\ req[q].outcome = "ok"
        /\ meta[req[r].route].hSkip = Some(TRUE)
        /\ meta[req[q].route].cSkip = Some(TRUE) /\ meta[req[q].route].hOpts # None

\* C8: when the Decision Stage rejects, the protected operation never runs and
\* the Settlement Stage issues no incr; in success-only mode a rejected request
\* issues only ttl and get.
C8_RejectShortCircuits ==
    \A r \in Req :
        Rejected(r)
        => /\ req[r].pc = "done"
           /\ req[r].outcome = "none"
           /\ ~Allowed(r)
           /\ SuccessOnlyMode(req[r].route) => req[r].ops = << "ttl", "get" >>
           /\ CountAllMode(req[r].route) => req[r].ops = << "ttl", "incr" >>

\* A request rejected in success-only mode while its key holds a counter.
C8_Witness ==
    \E r \in Req :
        /\ Rejected(r)
        /\ SuccessOnlyMode(req[r].route)
        /\ store[req[r].key[1]].val >= 1

\* C9: on every reject Retry-After is the TTL of step 4 (the store's answer,
\* read before the counter was incremented or read, replaced by windowSeconds
\* when negative), no limit / remaining / reset attribute is set, and the
\* request fails with a 429 error.
C9_RejectStep ==
    \A r \in Req :
        /\ (req[r].pc = "ttl" /\ req'[r].pc # "ttl")
           => req'[r].ttl = Some(IF store[req[r].key[1]].ttl < 0
                                 THEN EffWindow(req[r].route)
                                 ELSE store[req[r].key[1]].ttl)
        /\ (req[r].pc = "incr" /\ req'[r].pc = "expire") => req'[r].ttl = req[r].ttl
        /\ (~Rejected(r) /\ Rejected(r)')
           => /\ req[r].pc \in {"incr", "expire", "get"}
              /\ AttrIs(req'[r].headers.retryAfter, req[r].ttl[1])
              /\ req'[r].headers.limit = None
              /\ req'[r].headers.remaining = None
              /\ req'[r].headers.reset = None
              /\ req'[r].exception[1].status = 429
              /\ req'[r].pc = "done"

C9_RetryAfter == [][C9_RejectStep]_vars

\* A rejected request whose Retry-After is a TTL that had aged below the window.
C9_Witness ==
    \E r \in Req :
        /\ Rejected(r)
        /\ EffWindow(req[r].route) = 2
        /\ AttrIs(req[r].headers.retryAfter, 1)

\* C10: on every allow the response carries limit = L, a remaining count that
\* is never negative and at most L, and a reset time; in count-all mode the
\* k-th request of a window (k <= L) reports remaining = L - k.
C10_AllowAttributes ==
    \A r \in Req :
        /\ (Limited(r) /\ Allowed(r))
           => /\ AttrIs(req[r].headers.limit, EffLimit(req[r].route))
              /\ \E n \in 0..EffLimit(req[r].route) : AttrIs(req[r].headers.remaining, n)
              /\ \E t \in 0..EffWindow(req[r].route) : AttrIs(req[r].headers.reset, t)
              /\ req[r].headers.retryAfter = None
        /\ ( /\ Limited(r)
             /\ Decided(r)
             /\ CountAllMode(req[r].route)
             /\ req[r].key[1] \notin expired
             /\ Rank(r) <= EffLimit(req[r].route) )
           => AttrIs(req[r].headers.remaining, EffLimit(req[r].route) - Rank(r))

\* The message of the per-route fragment that applies to the route, else the
\* default message, else the generic one.
PolicyMessage(route) ==
    LET f == Fragment(route)
    IN  IF f # None /\ f[1].errorMessage # None THEN f[1].errorMessage[1]
        ELSE IF options.errorMessage # None THEN options.errorMessage[1]
        ELSE "Too Many Requests"

\* C11: the effective Policy is resolved field by field: limit and
\* windowSeconds are the per-route value when present and non-zero, else the
\* default; countAllRequests is the per-route value when present and truthy,
\* else the default, else false; a route with no per-route Policy gets the
\* default Policy. Both stages resolve it so.
C11_EffectivePolicy ==
    derived.kind = "policy"
    => /\ derived.limit = EffLimit(derived.route)
       /\ derived.duration = EffWindow(derived.route)
       /\ derived.guardCountAll = CountAllMode(derived.route)
       /\ derived.interceptorCountAll = CountAllMode(derived.route)

\* C12: the error of a rejection carries the message of the per-route
\* fragment that applies to the route (the handler-level or class-level one
\* from which limit and windowSeconds were resolved) when that fragment has
\* one, else the default message, else "Too Many Requests".
C12_ErrorMessage ==
    derived.kind = "policy" => derived.message = PolicyMessage(derived.route)

\* C13: once a counter's TTL elapses the key disappears, and the next
\* counted event on that key starts a new window with counter value 1 and
\* TTL = windowSeconds; so the first request decided after the window has
\* elapsed is allowed, in both modes, whatever was rejected before.
C13_WindowStep ==
    \A r \in Req :
        LET k == req[r].key[1]
            w == EffWindow(req[r].route)
        IN  /\ (req[r].pc = "incr" /\ req'[r].pc # "incr" /\ store[k] = Absent)
               => /\ store'[k] = [val |-> 1, ttl |-> -1]
                  /\ req'[r].pc = "expire"
            /\ (req[r].pc = "expire" /\ req'[r].pc # "expire")
               => /\ store'[k] = [val |-> 1, ttl |-> w]
                  /\ Allowed(r)'
            /\ (req[r].pc = "get" /\ req'[r].pc # "get" /\ store[k] = Absent)
               => Allowed(r)'
            /\ (req[r].pc = "settleIncr" /\ req'[r].pc # "settleIncr" /\ store[k] = Absent)
               => /\ store'[k] = [val |-> 1, ttl |-> -1]
                  /\ req'[r].pc = "settleExpire"
            /\ (req[r].pc = "settleExpire" /\ req'[r].pc # "settleExpire")
               => store'[k] = [val |-> 1, ttl |-> w]

C13_ExpiryStep ==
    \A k \in AllKeys :
        (store[k].ttl = 1 /\ store'[k] # store[k] /\ req' = req)
        => (store'[k] = Absent /\ k \in expired')

C13_FixedWindowReset == [][C13_WindowStep /\ C13_ExpiryStep]_vars

\* A caller was rejected, the window elapsed, and the caller's next request
\* was allowed and opened a new window.
C13_Witness ==
    \E r, q \in Req :
        /\ Rejected(r)
        /\ Allowed(q)
        /\ req[q].pc = "done"
        /\ req[q].key = req[r].key
        /\ req[r].key[1] \in expired
        /\ store[req[q].key[1]] = [val |-> 1, ttl |-> EffWindow(req[q].route)]

\* C14: the key derivation is deterministic and separates requests: the same
\* (controller name, handler name, tracker) always gives the same key, and
\* two requests that differ in tracker or in route identity give different
\* keys (the hash being injective), for every tracker string, those that
\* contain '-' included.
C14_KeyInjective ==
    derived.kind = "keys"
    => /\ (derived.a = derived.b) => (derived.keyA = derived.keyB)
       /\ (derived.a # derived.b) => (derived.keyA # derived.keyB)

\* The first available of the resolved client IP, the forwarded-for value
\* and "unknown"; a missing or empty value is not available.
FirstAvailable(request) ==
    IF request.ip # None /\ request.ip # Some("") THEN request.ip[1]
    ELSE IF request.xff # None /\ request.xff # Some("") THEN request.xff[1]
    ELSE "unknown"

\* C15: the default tracker is the first available of the resolved client
\* IP, the forwarded-for header value and "unknown": whenever the resolved IP
\* is undefined, null or empty and a forwarded-for value is present, the
\* tracker is the forwarded-for value.
C15_DefaultTracker ==
    derived.kind = "tracker" => derived.tracker = FirstAvailable(derived.request)

\* The request carries an authorization value.
HasAuthorization(request) ==
    request.authorization # None /\ request.authorization # Some("")

Undecorated(route) == meta[route].hOpts = None /\ meta[route].cOpts = None

\* C16: for a route not decorated with @RateLimit the guard returns true and
\* rate limiting is skipped: no key is bound and the store is not called.
C16_UndecoratedSkipped ==
    \A r \in Req :
        (Started(r) /\ Undecorated(req[r].route))
        => /\ Allowed(r)
           /\ ~Limited(r)
           /\ req[r].ops = << >>

\* A store call of the request's Decision Stage failed.
DecisionFault(r) == req[r].fault \in {Some("ttl"), Some("incr"), Some("expire"), Some("get")}

\* A store call of the request's Settlement Stage failed.
SettlementFault(r) == req[r].fault \in {Some("settleIncr"), Some("settleExpire")}

\* C17: when a store call of the Decision Stage (ttl, incr, expire or get)
\* fails, the failure ends the request: it is neither allowed nor reported as
\* limit-exceeded, the protected operation does not run, and the failed call
\* is the request's last store call, issued once.
C17_DecisionFailurePropagates ==
    \A r \in Req :
        DecisionFault(r)
        => /\ ~Allowed(r)
           /\ ~Rejected(r)
           /\ req[r].outcome = "none"
           /\ req[r].pc = "done"
           /\ req[r].ops[Len(req[r].ops)] = req[r].fault[1]
           /\ Calls(r, req[r].fault[1]) = 1

\* A Decision Stage in which the expire that follows the first increment failed.
C17_Witness ==
    \E r \in Req :
        /\ req[r].fault = Some("expire")
        /\ req[r].ops = << "ttl", "incr", "expire" >>

\* C18: the response is produced without waiting for the Settlement
\* increment, and a store failure during Settlement (incr or expire) leaves
\* the response as it was produced.
C18_SettlementStep ==
    \A r \in Req :
        /\ (req[r].pc = "handler" /\ req'[r].pc # "handler")
           => /\ req'[r].outcome # "none"
              /\ Calls(r, "incr")' = Calls(r, "incr")
        /\ req[r].pc \in {"settleIncr", "settleExpire"}
           => /\ req'[r].outcome = req[r].outcome
              /\ req'[r].headers = req[r].headers
              /\ req'[r].result = req[r].result
              /\ req'[r].exception = req[r].exception

C18_SettlementDetached == [][C18_SettlementStep]_vars

\* A successful response whose Settlement increment failed afterwards.
C18_Witness ==
    \E r \in Req :
        /\ req[r].fault = Some("settleIncr")
        /\ req[r].outcome = "ok"
        /\ Allowed(r)

\* C20: the TTL of a counter is set to windowSeconds only after the
\* increment that returned 1, by the request that made it, and only while
\* the counter has no TTL yet; apart from that a TTL only runs down. Later
\* counted requests, and the rejected requests of count-all mode, which
\* still increment the counter, leave the TTL as it is.
C20_TtlStep ==
    /\ \A k \in AllKeys :
         store'[k].ttl # store[k].ttl
         => \/ /\ store[k].ttl >= 1
               /\ req' = req
               /\ store'[k] = Absent \/ store'[k] = [store[k] EXCEPT !.ttl = @ - 1]
            \/ /\ store[k] = Absent
               /\ store'[k] = [val |-> 1, ttl |-> -1]
            \/ /\ store[k].ttl = -1
               /\ store'[k].val = store[k].val
               /\ \E r \in Req :
                    /\ req[r].key = Some(k)
                    /\ req[r].pc \in {"expire", "settleExpire"}
                    /\ req'[r].pc # req[r].pc
                    /\ req[r].ops[Len(req[r].ops)] = "incr"
                    /\ store'[k].ttl = EffWindow(req[r].route)
    /\ \A r \in Req :
         (~Rejected(r) /\ Rejected(r)' /\ CountAllMode(req[r].route))
         => /\ store'[req[r].key[1]].val = store[req[r].key[1]].val + 1
            /\ store'[req[r].key[1]].ttl = store[req[r].key[1]].ttl

C20_TtlSetOnce == [][C20_TtlStep]_vars

\* A count-all request was rejected and pushed the counter past the limit in
\* a window that had already aged: its TTL is below windowSeconds.
C20_Witness ==
    \E r \in Req :
        /\ Rejected(r)
        /\ CountAllMode(req[r].route)
        /\ store[req[r].key[1]].val > EffLimit(req[r].route)
        /\ store[req[r].key[1]].ttl = 1
        /\ EffWindow(req[r].route) = 2

\* The time a decided request reports: the reset attribute of an allow, the
\* Retry-After attribute of a reject.
ReportsTime(r, t) ==
    IF Rejected(r) THEN AttrIs(req[r].headers.retryAfter, t)
    ELSE AttrIs(req[r].headers.reset, t)

\* C21: when the store's ttl for the key is negative (no key, or no expiry
\* set) the Decision Stage reports the full windowSeconds as reset /
\* Retry-After time, otherwise the value the store returned; the reported
\* time lies between 0 and windowSeconds of the route's effective Policy.
C21_ReportStep ==
    \A r \in Req :
        /\ (req[r].pc = "ttl" /\ req'[r].pc # "ttl")
           => LET t == store[req[r].key[1]].ttl
              IN  /\ t < 0 => req'[r].ttl = Some(EffWindow(req[r].route))
                  /\ t >= 0 => req'[r].ttl = Some(t)
        /\ (Limited(r) /\ ~Decided(r) /\ Decided(r)')
           => /\ req[r].ttl[1] \in 0..EffWindow(req[r].route)
              /\ IF Rejected(r)'
                 THEN AttrIs(req'[r].headers.retryAfter, req[r].ttl[1])
                 ELSE AttrIs(req'[r].headers.reset, req[r].ttl[1])

C21_ReportedTime == [][C21_ReportStep]_vars

\* Two decided requests on one key: the first found no key and reported the
\* full window, the second reported the TTL the store returned, one second less.
C21_Witness ==
    \E r, q \in Req :
        /\ req[r].key = req[q].key
        /\ Decided(r) /\ Decided(q)
        /\ EffWindow(req[r].route) = 2
        /\ ReportsTime(r, 2)
        /\ ReportsTime(q, 1)

\* The request is in its Decision Stage or about to enter it.
InDecision(r) == req[r].pc \in {"idle", "ttl", "incr", "expire", "get"}

\* C22: in success-only mode the Decision Stage is read-only on the store:
\* it issues only ttl and get, never incr or expire, and none of its steps
\* changes a counter or a TTL, whether the request ends allowed or rejected.
C22_DecisionStep ==
    \A r \in Req :
        (InDecision(r) /\ req'[r] # req[r] /\ SuccessOnlyMode(req'[r].route))
        => /\ store' = store
           /\ req'[r].pc \notin {"incr", "expire"}
           /\ req'[r].ops \in {req[r].ops, Append(req[r].ops, "ttl"),
                               Append(req[r].ops, "get")}

C22_DecisionReadOnly == [][C22_DecisionStep]_vars

\* A success-only request rejected after ttl and get alone, the counter
\* still at the limit.
C22_Witness ==
    \E r \in Req :
        /\ SuccessOnlyMode(req[r].route)
        /\ Rejected(r)
        /\ req[r].ops = << "ttl", "get" >>
        /\ store[req[r].key[1]].val = EffLimit(req[r].route)

\* The requests that issued an incr in this step.
Incrementing(k) ==
    {r \in Req : req[r].key = Some(k) /\ req'[r].ops = Append(req[r].ops, "incr")}

\* C23: the engine changes a counter only through the store's incr: every
\* engine step leaves a counter as it is or, being one incr call, adds
\* exactly 1 to it; it never decrements and never deletes, so a counter only
\* goes down by disappearing when its TTL elapses.
C23_CounterStep ==
    \A k \in AllKeys :
        /\ req' # req
           => IF Incrementing(k) # {}
              THEN /\ Cardinality(Incrementing(k)) = 1
                   /\ store'[k].val = store[k].val + 1
              ELSE store'[k].val = store[k].val
        /\ store'[k].val < store[k].val
           => (req' = req /\ store[k].ttl = 1 /\ store'[k] = Absent)

C23_OnlyIncrement == [][C23_CounterStep]_vars

\* A counter that two requests took from nothing to 2, one incr each.
C23_Witness ==
    \E k \in AllKeys :
        /\ store[k].val = 2
        /\ Cardinality({r \in OnKey(k) : Calls(r, "incr") = 1}) = 2

BetweenStages == \A r \in Req : req[r].pc \in {"idle", "handler", "done"}

\* C25: no counter is left without an expiry: whenever no request is in the
\* middle of a stage, every key holding a counter >= 1 has a TTL, also after
\* a store failure between the incr that returned 1 and the expire that
\* follows it.
C25_NoCounterWithoutExpiry ==
    BetweenStages
    => \A k \in AllKeys : store[k].val >= 1 => store[k].ttl >= 1

\* C26: every store operation issued while handling a request, in the
\* Decision Stage and in the Settlement Stage, targets the Limiting Key bound
\* to that request: the key once bound stays, and a step of the request
\* leaves the counter and the TTL of every other key unchanged.
C26_IsolationStep ==
    \A r \in Req :
        req'[r] # req[r]
        => /\ Limited(r) => req'[r].key = req[r].key
           /\ \A k \in AllKeys : req'[r].key # Some(k) => store'[k] = store[k]

C26_KeyIsolation == [][C26_IsolationStep]_vars

\* Two callers of one route, each counted once under its own key.
C26_Witness ==
    \E r, q \in Req :
        /\ Limited(r) /\ Limited(q)
        /\ req[r].route = req[q].route
        /\ req[r].key # req[q].key
        /\ req[r].pc = "done" /\ req[q].pc = "done"
        /\ store[req[r].key[1]].val = 1
        /\ store[req[q].key[1]].val = 1

\* C27: in success-only mode every allowed response reports a remaining
\* count of at least 1: it is L minus the successes settled when the counter
\* was read, the request itself not subtracted, so a request that reads
\* L - 1 settled successes is answered with remaining = 1, and a request
\* that reads L of them is rejected.
C27_RemainingStep ==
    \A r \in Req :
        (req[r].pc = "get" /\ req'[r].pc # "get" /\ SuccessOnlyMode(req[r].route))
        => LET settled == store[req[r].key[1]].val
               L == EffLimit(req[r].route)
           IN  IF settled < L
               THEN /\ Allowed(r)'
                    /\ AttrIs(req'[r].headers.remaining, L - settled)
                    /\ L - settled >= 1
               ELSE Rejected(r)'

C27_RemainingAtLeastOne == [][C27_RemainingStep]_vars

\* The success that filled the window was answered with remaining = 1, and
\* the next request on the key was rejected.
C27_Witness ==
    \E r, q \in Req :
        /\ Limited(r)
        /\ SuccessOnlyMode(req[r].route)
        /\ Allowed(r)
        /\ AttrIs(req[r].headers.remaining, 1)
        /\ store[req[r].key[1]].val = EffLimit(req[r].route)
        /\ req[q].key = req[r].key
        /\ Rejected(q)

====
